---- MODULE Spec2Model ----
(***************************************************************************)
(* Model of src/mm.c: an explicit free list allocator (LIFO insertion,     *)
(* first fit, boundary tag coalescing) over the heap handed out by         *)
(* mem_sbrk.  The heap is modelled word by word (32-bit words, 32-bit      *)
(* size_t and pointers, as the lab builds with -m32): headers, footers and *)
(* the link words of free blocks are words of mem, and every macro and     *)
(* function of mm.c is an operator over the store                           *)
(*     [mem, free_startp, mem_brk].                                        *)
(***************************************************************************)
EXTENDS Integers, FiniteSets, Sequences, TLC

VARIABLES
    mem,            \* written words of the arena: byte address -> 32-bit word
    mem_brk,        \* address one past the last byte of the region
    mem_max_addr,   \* the provider refuses to grow the region beyond this
    heap_start,     \* static char *heap_start
    free_startp,    \* static char *free_startp: head of the free list
    live,           \* payload pointers the requester holds
    status,         \* "start", "ok", "initfail", "segv", "stray", "exit"
    calls,          \* number of calls made after mm_init
    budget,         \* number of calls the requester makes after mm_init
    last            \* the last step: operation, arguments, result

vars == <<mem, mem_brk, mem_max_addr, heap_start, free_startp, live, status, calls, budget, last>>

----------------------------------------------------------------------------
(* Bounds of the model *)

\* requester holds at most this many payloads at once
MaxLive == 2

\* the requester makes at most this many calls after mm_init
MaxCalls == 3

\* the same for a requester that calls mm_malloc and mm_free only
MaxCallsMF == 4

----------------------------------------------------------------------------
(* Constants of mm.c *)

REQSIZE == 8
OVERHEAD == 8
WSIZE == 4
CHUNKSIZE == 4096
NULL == 0

\* size_t and pointers are 32 bits wide.  A word is written as the two's
\* complement reading of its bit pattern: 0xFFFFFFFF is -1, 0x80000000 is
\* MinInt32.  The operators below are the unsigned arithmetic of C on it.
MaxInt32 == 2147483647
MinInt32 == -2147483647 - 1

\* (void *) -1
SBRK_FAIL == -1

\* a + b modulo 2^32
Add32(a, b) ==
    IF a >= 0 /\ b >= 0 /\ a > MaxInt32 - b
    THEN (a + MinInt32) + (b + MinInt32)
    ELSE IF a < 0 /\ b < 0 /\ a < MinInt32 - b
    THEN (a - MinInt32) + (b - MinInt32)
    ELSE a + b

\* a - b modulo 2^32
Sub32(a, b) == Add32(a, IF b = MinInt32 THEN MinInt32 ELSE -b)

\* a * k modulo 2^32, for a small factor k
RECURSIVE Mul32(_, _)
Mul32(a, k) == IF k = 0 THEN 0 ELSE Add32(a, Mul32(a, k - 1))

\* unsigned a / d and a % d, for d a power of two up to 8
UDiv(a, d) == IF a >= 0 THEN a \div d ELSE ((a - MinInt32) \div d) + (MaxInt32 \div d) + 1
UMod(a, d) == a % d

\* unsigned a < b and a <= b
ULT(a, b) == IF (a >= 0) = (b >= 0) THEN a < b ELSE b < 0
ULE(a, b) == a = b \/ ULT(a, b)

\* first byte of the arena (8-aligned)
mem_start_brk == 8

\* the value a word of the arena holds before anything was stored in it
Unwritten == 0

----------------------------------------------------------------------------
(* Macros *)

\* MAX with the comparison turned round
MAX_smaller(x, y) == IF ULT(y, x) THEN y ELSE x

MAX(x, y) == IF ULT(y, x) THEN x ELSE y

\* size | alloc on 32-bit words; alloc is 0 or 1
PACK(size, alloc) == IF UMod(size, 2) = 1 /\ alloc = 1 THEN size ELSE Add32(size, alloc)

GET(s, p) == IF p \in DOMAIN s.mem THEN s.mem[p] ELSE Unwritten

PUT(s, p, val) ==
    IF p \in DOMAIN s.mem
    THEN [s EXCEPT !.mem[p] = val]
    ELSE [s EXCEPT !.mem = (p :> val) @@ s.mem]

\* GET(p) & ~0x7 and GET(p) & 0x1
GET_SIZE(s, p) == GET(s, p) - UMod(GET(s, p), 8)
GET_ALLOC(s, p) == UMod(GET(s, p), 2)

NEXT_PTR(bp) == bp
PREV_PTR(bp) == Add32(bp, WSIZE)

HDRP(bp) == Sub32(bp, WSIZE)
\* FTRP one word too far: bp + size - WSIZE
FTRP_word_late(s, bp) == Sub32(Add32(bp, GET_SIZE(s, HDRP(bp))), WSIZE)

FTRP(s, bp) == Sub32(Add32(bp, GET_SIZE(s, HDRP(bp))), REQSIZE)

NEXT_BLKP(s, bp) == Add32(bp, GET_SIZE(s, Sub32(bp, WSIZE)))
PREV_BLKP(s, bp) == Sub32(bp, GET_SIZE(s, Sub32(bp, REQSIZE)))

----------------------------------------------------------------------------
(* The region provider (memlib): mem_sbrk(int incr) *)

mem_sbrk(s, incr) ==
    IF incr < 0 \/ s.mem_brk + incr > mem_max_addr
    THEN [st |-> s, ret |-> SBRK_FAIL]
    ELSE [st |-> [s EXCEPT !.mem_brk = s.mem_brk + incr], ret |-> s.mem_brk]

----------------------------------------------------------------------------
(* Free list *)

mm_insert(s, block) ==
    LET s1 == PUT(s, PREV_PTR(block), 0)
    IN  IF s1.free_startp = NULL
        THEN [PUT(s1, NEXT_PTR(block), 0) EXCEPT !.free_startp = block]
        ELSE LET s2 == PUT(s1, PREV_PTR(s1.free_startp), block)
                 s3 == PUT(s2, NEXT_PTR(block), s2.free_startp)
             IN  [s3 EXCEPT !.free_startp = block]

\* mm_delete that leaves free_startp alone when the head is removed
mm_delete_keeps_head(s, block) ==
    LET next == GET(s, NEXT_PTR(block))
        prev == GET(s, PREV_PTR(block))
    IN  IF next = NULL /\ prev # NULL
        THEN PUT(s, NEXT_PTR(prev), next)
        ELSE IF prev = NULL /\ next # NULL
        THEN PUT(s, PREV_PTR(next), prev)
        ELSE IF prev = NULL /\ next = NULL
        THEN [s EXCEPT !.free_startp = NULL]
        ELSE PUT(PUT(s, NEXT_PTR(prev), next), PREV_PTR(next), prev)

\* mm_delete that does not clear the prev link of the new head
mm_delete_keeps_prev(s, block) ==
    LET next == GET(s, NEXT_PTR(block))
        prev == GET(s, PREV_PTR(block))
    IN  IF next = NULL /\ prev # NULL
        THEN PUT(s, NEXT_PTR(prev), next)
        ELSE IF prev = NULL /\ next # NULL
        THEN [s EXCEPT !.free_startp = next]
        ELSE IF prev = NULL /\ next = NULL
        THEN [s EXCEPT !.free_startp = NULL]
        ELSE PUT(PUT(s, NEXT_PTR(prev), next), PREV_PTR(next), prev)

mm_delete(s, block) ==
    LET next == GET(s, NEXT_PTR(block))
        prev == GET(s, PREV_PTR(block))
    IN  IF next = NULL /\ prev # NULL
        THEN PUT(s, NEXT_PTR(prev), next)
        ELSE IF prev = NULL /\ next # NULL
        THEN [PUT(s, PREV_PTR(next), prev) EXCEPT !.free_startp = next]
        ELSE IF prev = NULL /\ next = NULL
        THEN [s EXCEPT !.free_startp = NULL]
        ELSE PUT(PUT(s, NEXT_PTR(prev), next), PREV_PTR(next), prev)

----------------------------------------------------------------------------
(* Coalescing.  right_free, left_free and both_free are the bodies of the   *)
(* three cases, each applied to the store its calls of mm_delete leave.     *)

\* coalesce that leaves the size of the right neighbour out of the sum of
\* lines 525-526
coalesce_both_drops_right(s, middle) ==
    LET left == GET_ALLOC(s, FTRP(s, PREV_BLKP(s, middle)))
        right == GET_ALLOC(s, HDRP(NEXT_BLKP(s, middle)))
        size == GET_SIZE(s, HDRP(middle))
        right_free(a1) ==
            LET sz == Add32(size, GET_SIZE(a1, HDRP(NEXT_BLKP(a1, middle))))
                a2 == PUT(a1, HDRP(middle), PACK(sz, 0))
                a3 == PUT(a2, FTRP(a2, middle), PACK(sz, 0))
            IN  [st |-> mm_insert(a3, middle), ret |-> middle]
        left_free(b1) ==
            LET sz == Add32(size, GET_SIZE(b1, HDRP(PREV_BLKP(b1, middle))))
                b2 == PUT(b1, HDRP(PREV_BLKP(b1, middle)), PACK(sz, 0))
                b3 == PUT(b2, FTRP(b2, middle), PACK(sz, 0))
                m == PREV_BLKP(b3, middle)
            IN  [st |-> mm_insert(b3, m), ret |-> m]
        both_free(c2) ==
            LET sz == Add32(size, GET_SIZE(c2, HDRP(PREV_BLKP(c2, middle))))
                c3 == PUT(c2, HDRP(PREV_BLKP(c2, middle)), PACK(sz, 0))
                c4 == PUT(c3, FTRP(c3, NEXT_BLKP(c3, middle)), PACK(sz, 0))
                m == PREV_BLKP(c4, middle)
            IN  [st |-> mm_insert(c4, m), ret |-> m]
        both_free_next(c1) == both_free(mm_delete(c1, NEXT_BLKP(c1, middle)))
        deleted(d) ==
            IF left = 1 /\ right = 0
            THEN right_free(mm_delete(d, NEXT_BLKP(d, middle)))
            ELSE IF left = 0 /\ right = 1
            THEN left_free(mm_delete(d, PREV_BLKP(d, middle)))
            ELSE both_free_next(mm_delete(d, PREV_BLKP(d, middle)))
    IN  IF left = 1 /\ right = 1
        THEN [st |-> s, ret |-> middle]
        ELSE deleted(mm_delete(s, middle))

\* coalesce that returns at once when either neighbour is allocated
coalesce_either(s, middle) ==
    LET left == GET_ALLOC(s, FTRP(s, PREV_BLKP(s, middle)))
        right == GET_ALLOC(s, HDRP(NEXT_BLKP(s, middle)))
        size == GET_SIZE(s, HDRP(middle))
        right_free(a1) ==
            LET sz == Add32(size, GET_SIZE(a1, HDRP(NEXT_BLKP(a1, middle))))
                a2 == PUT(a1, HDRP(middle), PACK(sz, 0))
                a3 == PUT(a2, FTRP(a2, middle), PACK(sz, 0))
            IN  [st |-> mm_insert(a3, middle), ret |-> middle]
        left_free(b1) ==
            LET sz == Add32(size, GET_SIZE(b1, HDRP(PREV_BLKP(b1, middle))))
                b2 == PUT(b1, HDRP(PREV_BLKP(b1, middle)), PACK(sz, 0))
                b3 == PUT(b2, FTRP(b2, middle), PACK(sz, 0))
                m == PREV_BLKP(b3, middle)
            IN  [st |-> mm_insert(b3, m), ret |-> m]
        both_free(c2) ==
            LET sz == Add32(size, Add32(GET_SIZE(c2, HDRP(PREV_BLKP(c2, middle))),
                                        GET_SIZE(c2, FTRP(c2, NEXT_BLKP(c2, middle)))))
                c3 == PUT(c2, HDRP(PREV_BLKP(c2, middle)), PACK(sz, 0))
                c4 == PUT(c3, FTRP(c3, NEXT_BLKP(c3, middle)), PACK(sz, 0))
                m == PREV_BLKP(c4, middle)
            IN  [st |-> mm_insert(c4, m), ret |-> m]
        both_free_next(c1) == both_free(mm_delete(c1, NEXT_BLKP(c1, middle)))
        deleted(d) ==
            IF left = 1 /\ right = 0
            THEN right_free(mm_delete(d, NEXT_BLKP(d, middle)))
            ELSE IF left = 0 /\ right = 1
            THEN left_free(mm_delete(d, PREV_BLKP(d, middle)))
            ELSE both_free_next(mm_delete(d, PREV_BLKP(d, middle)))
    IN  IF left = 1 \/ right = 1
        THEN [st |-> s, ret |-> middle]
        ELSE deleted(mm_delete(s, middle))

coalesce(s, middle) ==
    LET left == GET_ALLOC(s, FTRP(s, PREV_BLKP(s, middle)))
        right == GET_ALLOC(s, HDRP(NEXT_BLKP(s, middle)))
        size == GET_SIZE(s, HDRP(middle))
        right_free(a1) ==
            LET sz == Add32(size, GET_SIZE(a1, HDRP(NEXT_BLKP(a1, middle))))
                a2 == PUT(a1, HDRP(middle), PACK(sz, 0))
                a3 == PUT(a2, FTRP(a2, middle), PACK(sz, 0))
            IN  [st |-> mm_insert(a3, middle), ret |-> middle]
        left_free(b1) ==
            LET sz == Add32(size, GET_SIZE(b1, HDRP(PREV_BLKP(b1, middle))))
                b2 == PUT(b1, HDRP(PREV_BLKP(b1, middle)), PACK(sz, 0))
                b3 == PUT(b2, FTRP(b2, middle), PACK(sz, 0))
                m == PREV_BLKP(b3, middle)
            IN  [st |-> mm_insert(b3, m), ret |-> m]
        both_free(c2) ==
            LET sz == Add32(size, Add32(GET_SIZE(c2, HDRP(PREV_BLKP(c2, middle))),
                                        GET_SIZE(c2, FTRP(c2, NEXT_BLKP(c2, middle)))))
                c3 == PUT(c2, HDRP(PREV_BLKP(c2, middle)), PACK(sz, 0))
                c4 == PUT(c3, FTRP(c3, NEXT_BLKP(c3, middle)), PACK(sz, 0))
                m == PREV_BLKP(c4, middle)
            IN  [st |-> mm_insert(c4, m), ret |-> m]
        both_free_next(c1) == both_free(mm_delete(c1, NEXT_BLKP(c1, middle)))
        deleted(d) ==
            IF left = 1 /\ right = 0
            THEN right_free(mm_delete(d, NEXT_BLKP(d, middle)))
            ELSE IF left = 0 /\ right = 1
            THEN left_free(mm_delete(d, PREV_BLKP(d, middle)))
            ELSE both_free_next(mm_delete(d, PREV_BLKP(d, middle)))
    IN  IF left = 1 /\ right = 1
        THEN [st |-> s, ret |-> middle]
        ELSE deleted(mm_delete(s, middle))

----------------------------------------------------------------------------
(* Heap extension.  got is the rest of the function, applied to what        *)
(* mem_sbrk returned.                                                       *)

\* new_free_block that does not write the new epilogue header
new_free_block_no_epilogue(s, words) ==
    LET bytes == IF UMod(words, 2) = 1 THEN Mul32(Add32(words, 1), WSIZE) ELSE Mul32(words, WSIZE)
        got(r) ==
            LET new_block == r.ret
                s1 == PUT(r.st, HDRP(new_block), PACK(bytes, 0))
                s2 == PUT(s1, FTRP(s1, new_block), PACK(bytes, 0))
            IN  IF new_block = SBRK_FAIL
                THEN [st |-> r.st, ret |-> NULL]
                ELSE coalesce(mm_insert(s2, new_block), new_block)
    IN  IF ULT(words, 2)
        THEN [st |-> s, ret |-> NULL]
        ELSE got(mem_sbrk(s, bytes))

\* new_free_block that tests what mem_sbrk returned against NULL
new_free_block_null_test(s, words) ==
    LET bytes == IF UMod(words, 2) = 1 THEN Mul32(Add32(words, 1), WSIZE) ELSE Mul32(words, WSIZE)
        got(r) ==
            LET new_block == r.ret
                s1 == PUT(r.st, HDRP(new_block), PACK(bytes, 0))
                s2 == PUT(s1, FTRP(s1, new_block), PACK(bytes, 0))
                s3 == PUT(s2, HDRP(NEXT_BLKP(s2, new_block)), PACK(0, 1))
            IN  IF new_block = NULL
                THEN [st |-> r.st, ret |-> NULL]
                ELSE coalesce(mm_insert(s3, new_block), new_block)
    IN  IF ULT(words, 2)
        THEN [st |-> s, ret |-> NULL]
        ELSE got(mem_sbrk(s, bytes))

new_free_block(s, words) ==
    LET bytes == IF UMod(words, 2) = 1 THEN Mul32(Add32(words, 1), WSIZE) ELSE Mul32(words, WSIZE)
        got(r) ==
            LET new_block == r.ret
                s1 == PUT(r.st, HDRP(new_block), PACK(bytes, 0))
                s2 == PUT(s1, FTRP(s1, new_block), PACK(bytes, 0))
                s3 == PUT(s2, HDRP(NEXT_BLKP(s2, new_block)), PACK(0, 1))
            IN  IF new_block = SBRK_FAIL
                THEN [st |-> r.st, ret |-> NULL]
                ELSE coalesce(mm_insert(s3, new_block), new_block)
    IN  IF ULT(words, 2)
        THEN [st |-> s, ret |-> NULL]
        ELSE got(mem_sbrk(s, bytes))

\* mm_init without the padding word in front of the prologue
mm_init_no_pad(s) ==
    LET got(r) ==
            LET hs == r.ret
                s2 == PUT(r.st, hs, PACK(OVERHEAD, 1))
                s3 == PUT(s2, Add32(hs, WSIZE), PACK(OVERHEAD, 1))
                s4 == PUT(s3, Add32(hs, REQSIZE), PACK(0, 1))
            IN  [st |-> [s4 EXCEPT !.free_startp = NULL], heap_start |-> Add32(hs, WSIZE)]
        extended(h, n) ==
            [st |-> [n.st EXCEPT !.free_startp = n.ret],
             heap_start |-> h,
             ret |-> IF n.ret = NULL THEN -1 ELSE 0]
        laid_out(i) == extended(i.heap_start, new_free_block(i.st, UDiv(CHUNKSIZE, WSIZE)))
    IN  laid_out(got(mem_sbrk(s, 3 * WSIZE)))

\* mm_init, for a first mem_sbrk that returned an address of the arena: got
\* is lines 146-156 applied to what mem_sbrk returned, extended lines 158-172
\* applied to what new_free_block returned
mm_init(s) ==
    LET got(r) ==
            LET hs == r.ret
                s1 == PUT(r.st, hs, 0)
                s2 == PUT(s1, Add32(hs, WSIZE), PACK(OVERHEAD, 1))
                s3 == PUT(s2, Add32(hs, REQSIZE), PACK(OVERHEAD, 1))
                s4 == PUT(s3, Add32(hs, REQSIZE + WSIZE), PACK(0, 1))
            IN  [st |-> [s4 EXCEPT !.free_startp = NULL], heap_start |-> Add32(hs, REQSIZE)]
        extended(h, n) ==
            [st |-> [n.st EXCEPT !.free_startp = n.ret],
             heap_start |-> h,
             ret |-> IF n.ret = NULL THEN -1 ELSE 0]
        laid_out(i) == extended(i.heap_start, new_free_block(i.st, UDiv(CHUNKSIZE, WSIZE)))
    IN  laid_out(got(mem_sbrk(s, 4 * WSIZE)))

----------------------------------------------------------------------------
(* Placement *)

\* the loop of scan_for_free with < for <= in the test of line 553
RECURSIVE scan_from_strict(_, _, _, _)
scan_from_strict(s, curr, reqsize, fuel) ==
    IF curr = NULL \/ fuel = 0
    THEN NULL
    ELSE IF ULT(reqsize, GET_SIZE(s, HDRP(curr)))
    THEN curr
    ELSE scan_from_strict(s, GET(s, NEXT_PTR(curr)), reqsize, fuel - 1)

RECURSIVE scan_from(_, _, _, _)
scan_from(s, curr, reqsize, fuel) ==
    IF curr = NULL \/ fuel = 0
    THEN NULL
    ELSE IF ULE(reqsize, GET_SIZE(s, HDRP(curr)))
    THEN curr
    ELSE scan_from(s, GET(s, NEXT_PTR(curr)), reqsize, fuel - 1)

scan_for_free(s, reqsize) ==
    scan_from(s, s.free_startp, reqsize, Cardinality(DOMAIN s.mem))

\* place with REQSIZE for REQSIZE + OVERHEAD in the test of line 302
place_split_at_reqsize(s, alloc_ptr, size_needed) ==
    LET block_size == GET_SIZE(s, HDRP(alloc_ptr))
        block_remainder == Sub32(block_size, size_needed)
        off_list(s0) ==
            IF ULE(REQSIZE, block_remainder)
            THEN LET s1 == PUT(s0, HDRP(alloc_ptr), PACK(size_needed, 1))
                     s2 == PUT(s1, FTRP(s1, alloc_ptr), PACK(size_needed, 1))
                     rest == NEXT_BLKP(s2, alloc_ptr)
                     s3 == PUT(s2, HDRP(rest), PACK(block_remainder, 0))
                     s4 == PUT(s3, FTRP(s3, rest), PACK(block_remainder, 0))
                 IN  mm_insert(s4, rest)
            ELSE LET s1 == PUT(s0, HDRP(alloc_ptr), PACK(block_size, 1))
                 IN  PUT(s1, FTRP(s1, alloc_ptr), PACK(block_size, 1))
    IN  off_list(IF GET_ALLOC(s, HDRP(alloc_ptr)) = 0 THEN mm_delete(s, alloc_ptr) ELSE s)

\* place that takes the branch of lines 317-322 whatever the remainder is
place_no_split(s, alloc_ptr, size_needed) ==
    LET block_size == GET_SIZE(s, HDRP(alloc_ptr))
        off_list(s0) ==
            LET s1 == PUT(s0, HDRP(alloc_ptr), PACK(block_size, 1))
            IN  PUT(s1, FTRP(s1, alloc_ptr), PACK(block_size, 1))
    IN  off_list(IF GET_ALLOC(s, HDRP(alloc_ptr)) = 0 THEN mm_delete(s, alloc_ptr) ELSE s)

\* off_list is lines 302-322 applied to the store lines 296-300 leave
place(s, alloc_ptr, size_needed) ==
    LET block_size == GET_SIZE(s, HDRP(alloc_ptr))
        block_remainder == Sub32(block_size, size_needed)
        off_list(s0) ==
            IF ULE(REQSIZE + OVERHEAD, block_remainder)
            THEN LET s1 == PUT(s0, HDRP(alloc_ptr), PACK(size_needed, 1))
                     s2 == PUT(s1, FTRP(s1, alloc_ptr), PACK(size_needed, 1))
                     rest == NEXT_BLKP(s2, alloc_ptr)
                     s3 == PUT(s2, HDRP(rest), PACK(block_remainder, 0))
                     s4 == PUT(s3, FTRP(s3, rest), PACK(block_remainder, 0))
                 IN  mm_insert(s4, rest)
            ELSE LET s1 == PUT(s0, HDRP(alloc_ptr), PACK(block_size, 1))
                 IN  PUT(s1, FTRP(s1, alloc_ptr), PACK(block_size, 1))
    IN  off_list(IF GET_ALLOC(s, HDRP(alloc_ptr)) = 0 THEN mm_delete(s, alloc_ptr) ELSE s)

\* the adjusted block size with REQSIZE for REQSIZE + OVERHEAD in line 242
AdjustSize_no_overhead(size) ==
    IF ULE(size, REQSIZE)
    THEN REQSIZE
    ELSE Mul32(UDiv(Add32(size, OVERHEAD + (REQSIZE - 1)), REQSIZE), REQSIZE)

\* the adjusted block size of mm_malloc and mm_realloc
AdjustSize(size) ==
    IF ULE(size, REQSIZE)
    THEN REQSIZE + OVERHEAD
    ELSE Mul32(UDiv(Add32(size, OVERHEAD + (REQSIZE - 1)), REQSIZE), REQSIZE)

\* extended is lines 270-280 applied to what new_free_block returned
mm_malloc(s, size) ==
    LET adjsize == AdjustSize(size)
        extend_size == MAX(adjsize, CHUNKSIZE)
        extended(ext) ==
            IF ext.ret = NULL
            THEN [st |-> ext.st, ret |-> NULL]
            ELSE [st |-> place(ext.st, ext.ret, adjsize), ret |-> ext.ret]
        scanned(found) ==
            IF found # NULL
            THEN [st |-> place(s, found, adjsize), ret |-> found]
            ELSE extended(new_free_block(s, UDiv(extend_size, WSIZE)))
    IN  IF ULE(size, 0)
        THEN [st |-> s, ret |-> NULL]
        ELSE scanned(scan_for_free(s, adjsize))

\* mm_free without the call of coalesce
mm_free_no_coalesce(s, block) ==
    LET ptrSize == GET_SIZE(s, HDRP(block))
        s1 == PUT(s, HDRP(block), PACK(ptrSize, 0))
        s2 == PUT(s1, FTRP(s1, block), PACK(ptrSize, 0))
    IN  mm_insert(s2, block)

mm_free(s, block) ==
    LET ptrSize == GET_SIZE(s, HDRP(block))
        s1 == PUT(s, HDRP(block), PACK(ptrSize, 0))
        s2 == PUT(s1, FTRP(s1, block), PACK(ptrSize, 0))
    IN  coalesce(mm_insert(s2, block), block).st

----------------------------------------------------------------------------
(* mm_realloc.  exited: the call ended in exit(1) instead of returning. *)

\* memcpy of one word only, whatever n is
memcpy_one_word(s, dst, src, n) ==
    IF src \in DOMAIN s.mem
    THEN PUT(s, dst, s.mem[src])
    ELSE [s EXCEPT !.mem = [a \in (DOMAIN s.mem) \ {dst} |-> s.mem[a]]]

\* memcpy(dst, src, n): n is a multiple of 4 here (a block size); a source
\* word nothing was stored in leaves the destination word indeterminate too
memcpy(s, dst, src, n) ==
    LET offs == {o \in 0..(n - 1) : o % WSIZE = 0}
        dsts == {Add32(dst, o) : o \in offs}
        from(a) == Add32(src, Sub32(a, dst))
        keep == (DOMAIN s.mem) \ {a \in dsts : from(a) \notin DOMAIN s.mem}
        dom == keep \cup {a \in dsts : from(a) \in DOMAIN s.mem}
    IN  [s EXCEPT !.mem = [a \in dom |-> IF a \in dsts THEN s.mem[from(a)] ELSE s.mem[a]]]

\* the test of line 450 without the look at the allocated bit
expand_right_any(right, new_size, size, next_size) ==
    ULT(size, new_size) /\ next_size # 0

\* the test of line 450: the next block is free, both blocks together are big
\* enough, and the next block is not the epilogue header
expand_right(right, new_size, size, next_size) ==
    right = 0 /\ ULT(size, new_size) /\ next_size # 0

\* split_right and whole_right are lines 456-462 and 468-469 applied to the
\* store mm_delete leaves, moved lines 479-489 applied to what mm_malloc
\* returned
mm_realloc(s, ptr, size0) ==
    LET copySize == GET_SIZE(s, HDRP(ptr))
        size == AdjustSize(size0)
        right == GET_ALLOC(s, HDRP(NEXT_BLKP(s, ptr)))
        new_size == Add32(GET_SIZE(s, HDRP(NEXT_BLKP(s, ptr))), copySize)
        right_remainder == Sub32(new_size, size)
        split_right(s1) ==
            LET s2 == PUT(s1, HDRP(ptr), PACK(size, 1))
                s3 == PUT(s2, FTRP(s2, ptr), PACK(size, 1))
                rest == NEXT_BLKP(s3, ptr)
                s4 == PUT(s3, HDRP(rest), PACK(right_remainder, 0))
                s5 == PUT(s4, FTRP(s4, rest), PACK(right_remainder, 0))
            IN  [st |-> mm_insert(s5, rest), ret |-> rest, exited |-> FALSE]
        back(r) == [r EXCEPT !.ret = PREV_BLKP(r.st, r.ret)]
        whole_right(s1) ==
            LET s2 == PUT(s1, HDRP(ptr), PACK(new_size, 1))
            IN  [st |-> PUT(s2, FTRP(s2, ptr), PACK(new_size, 1)), ret |-> ptr, exited |-> FALSE]
        moved(m) ==
            IF m.ret = NULL
            THEN [st |-> m.st, ret |-> NULL, exited |-> TRUE]
            ELSE [st |-> mm_free(memcpy(m.st, m.ret, ptr, copySize), ptr),
                  ret |-> m.ret, exited |-> FALSE]
    IN  IF copySize = size0
        THEN [st |-> s, ret |-> ptr, exited |-> FALSE]
        ELSE IF size0 = 0
        THEN [st |-> mm_free(s, ptr), ret |-> NULL, exited |-> FALSE]
        ELSE IF ULT(size, copySize)
        THEN [st |-> place(s, ptr, size), ret |-> ptr, exited |-> FALSE]
        ELSE IF expand_right(right, new_size, size, GET_SIZE(s, HDRP(NEXT_BLKP(s, ptr))))
        THEN IF ULE(REQSIZE + OVERHEAD, right_remainder)
             THEN back(split_right(mm_delete(s, NEXT_BLKP(s, ptr))))
             ELSE whole_right(mm_delete(s, NEXT_BLKP(s, ptr)))
        ELSE moved(mm_malloc(s, size))

----------------------------------------------------------------------------
(* Heap walk, as the loop of mm_checkheap: the block pointers from the      *)
(* prologue up to the epilogue header.                                      *)

RECURSIVE walk_from(_, _, _)
walk_from(s, bp, fuel) ==
    IF fuel = 0 \/ HDRP(bp) \notin DOMAIN s.mem \/ GET_SIZE(s, HDRP(bp)) = 0
    THEN <<>>
    ELSE <<bp>> \o walk_from(s, NEXT_BLKP(s, bp), fuel - 1)

HeapWalk(s, hs) == walk_from(s, hs, Cardinality(DOMAIN s.mem))

----------------------------------------------------------------------------
(* State machine *)

Store == [mem |-> mem, free_startp |-> free_startp, mem_brk |-> mem_brk]

\* request sizes the requester draws from
Requests == {1, 24, 4080, 4088, CHUNKSIZE}

\* request sizes of the calls of mm_realloc with a null pointer
NullRequests == {1, 24}

\* limits the provider may have: room for none of the two calls of mm_init,
\* for the first only, for both, for CHUNKSIZE bytes more, and for the
\* extension that serves a request of CHUNKSIZE bytes
Limits == {mem_start_brk,
           mem_start_brk + 4 * WSIZE,
           mem_start_brk + 4 * WSIZE + CHUNKSIZE,
           mem_start_brk + 4 * WSIZE + CHUNKSIZE + CHUNKSIZE,
           mem_start_brk + 4 * WSIZE + CHUNKSIZE + (CHUNKSIZE + OVERHEAD)}

Call(op, ptr, size, ret) == [op |-> op, ptr |-> ptr, size |-> size, ret |-> ret]

\* what the requester stores in the payload word at address a
Stamp(a) == -a

Init ==
    /\ mem = <<>>
    /\ mem_brk = mem_start_brk
    /\ mem_max_addr \in Limits
    /\ heap_start = NULL
    /\ free_startp = NULL
    /\ live = {}
    /\ status = "start"
    /\ calls = 0
    /\ budget = MaxCalls
    /\ last = Call("none", NULL, 0, NULL)

\* mm_init past the test of line 141
MmInit ==
    /\ status = "start"
    /\ mem_sbrk(Store, 4 * WSIZE).ret # NULL
    /\ mem_sbrk(Store, 4 * WSIZE).ret # SBRK_FAIL
    /\ \E r \in {mm_init(Store)} :
           /\ heap_start' = r.heap_start
           /\ mem' = r.st.mem
           /\ mem_brk' = r.st.mem_brk
           /\ free_startp' = r.st.free_startp
           /\ status' = IF r.ret = 0 THEN "ok" ELSE "initfail"
           /\ last' = Call("init", NULL, 0, r.ret)
    /\ UNCHANGED <<mem_max_addr, live, calls, budget>>

\* mm_init whose first mem_sbrk fails: heap_start is (void *) -1, which is not
\* NULL, so the stores of lines 146-152 go to addresses outside the arena:
\* either the access traps or it lands in memory that is not the heap's
MmInitFault ==
    /\ status = "start"
    /\ mem_sbrk(Store, 4 * WSIZE).ret = SBRK_FAIL
    /\ heap_start' = SBRK_FAIL
    /\ status' \in {"segv", "stray"}
    /\ last' = Call("init", NULL, 0, NULL)
    /\ UNCHANGED <<mem, mem_brk, mem_max_addr, free_startp, live, calls, budget>>

Malloc(size) ==
    /\ status = "ok"
    /\ calls < budget
    /\ Cardinality(live) < MaxLive
    /\ \E r \in {mm_malloc(Store, size)} :
           /\ mem' = r.st.mem
           /\ mem_brk' = r.st.mem_brk
           /\ free_startp' = r.st.free_startp
           /\ live' = IF r.ret = NULL THEN live ELSE live \cup {r.ret}
           /\ last' = Call("malloc", NULL, size, r.ret)
    /\ calls' = calls + 1
    /\ UNCHANGED <<mem_max_addr, heap_start, status, budget>>

Free(block) ==
    /\ status = "ok"
    /\ calls < budget
    /\ block \in live
    /\ \E t \in {mm_free(Store, block)} :
           /\ mem' = t.mem
           /\ mem_brk' = t.mem_brk
           /\ free_startp' = t.free_startp
    /\ live' = live \ {block}
    /\ last' = Call("free", block, 0, NULL)
    /\ calls' = calls + 1
    /\ UNCHANGED <<mem_max_addr, heap_start, status, budget>>

\* mm_free(NULL): line 385 reads the word at NULL - 4, outside the arena:
\* either the access traps or it reads and then stores to memory that is not
\* the heap's
FreeNull ==
    /\ status = "ok"
    /\ calls < budget
    /\ status' \in {"segv", "stray"}
    /\ last' = Call("free", NULL, 0, NULL)
    /\ calls' = calls + 1
    /\ UNCHANGED <<mem, mem_brk, mem_max_addr, heap_start, free_startp, live, budget>>

Realloc(ptr, size) ==
    /\ status = "ok"
    /\ calls < budget
    /\ ptr \in live
    /\ \E r \in {mm_realloc(Store, ptr, size)} :
           /\ mem' = r.st.mem
           /\ mem_brk' = r.st.mem_brk
           /\ free_startp' = r.st.free_startp
           /\ live' = IF r.exited THEN live
                      ELSE IF r.ret = NULL THEN live \ {ptr}
                      ELSE (live \ {ptr}) \cup {r.ret}
           /\ status' = IF r.exited THEN "exit" ELSE "ok"
           /\ last' = Call("realloc", ptr, size, r.ret)
    /\ calls' = calls + 1
    /\ UNCHANGED <<mem_max_addr, heap_start, budget>>

\* mm_realloc(NULL, size): line 416 reads the word at NULL - 4, outside the
\* arena, before anything else: either the access traps or the call goes on
\* with whatever that read gave it
ReallocNull(size) ==
    /\ status = "ok"
    /\ calls < budget
    /\ status' \in {"segv", "stray"}
    /\ last' = Call("realloc", NULL, size, NULL)
    /\ calls' = calls + 1
    /\ UNCHANGED <<mem, mem_brk, mem_max_addr, heap_start, free_startp, live, budget>>

\* the requester stores to the first and to the last word of the payload it
\* was just handed
UserStore(ptr) ==
    /\ status = "ok"
    /\ ptr \in live
    /\ last.op \in {"malloc", "realloc"}
    /\ last.ret = ptr
    /\ calls < budget
    /\ LET lastw == Sub32(FTRP(Store, ptr), WSIZE)
       IN  mem' = PUT(PUT(Store, ptr, Stamp(ptr)), lastw, Stamp(lastw)).mem
    /\ last' = Call("store", ptr, 0, NULL)
    /\ UNCHANGED <<mem_brk, mem_max_addr, heap_start, free_startp, live, status, calls, budget>>

Next ==
    \/ MmInit
    \/ MmInitFault
    \/ \E size \in Requests \cup {0} : Malloc(size)
    \/ \E block \in live : Free(block)
    \/ FreeNull
    \/ \E ptr \in live, size \in Requests \cup {0} : Realloc(ptr, size)
    \/ \E size \in NullRequests : ReallocNull(size)
    \/ \E ptr \in live : UserStore(ptr)

Spec == Init /\ [][Next]_vars

\* a requester that calls mm_malloc and mm_free only
InitMF ==
    /\ mem = <<>>
    /\ mem_brk = mem_start_brk
    /\ mem_max_addr \in Limits
    /\ heap_start = NULL
    /\ free_startp = NULL
    /\ live = {}
    /\ status = "start"
    /\ calls = 0
    /\ budget = MaxCallsMF
    /\ last = Call("none", NULL, 0, NULL)

NextMF ==
    \/ MmInit
    \/ \E size \in Requests \cup {0} : Malloc(size)
    \/ \E block \in live : Free(block)
    \/ \E ptr \in live : UserStore(ptr)

SpecMF == InitMF /\ [][NextMF]_vars

----------------------------------------------------------------------------
(* Vocabulary of the properties *)

StoreNext == [mem |-> mem', free_startp |-> free_startp', mem_brk |-> mem_brk']

\* a public call has returned to the requester
Returned == status \in {"ok", "initfail"}

\* the word at address a of memory m, if one was stored there
Word(m, a) == IF a \in DOMAIN m THEN <<m[a]>> ELSE <<>>

Blocks == HeapWalk(Store, heap_start)
BlockSize(s, bp) == GET_SIZE(s, HDRP(bp))
FreeBlocks == {Blocks[i] : i \in {j \in DOMAIN Blocks : GET_ALLOC(Store, HDRP(Blocks[j])) = 0}}

\* the free list, as the loop over it in mm_checkheap: head first
RECURSIVE list_from(_, _, _)
list_from(s, curr, fuel) ==
    IF curr = NULL \/ fuel = 0
    THEN <<>>
    ELSE <<curr>> \o list_from(s, GET(s, NEXT_PTR(curr)), fuel - 1)

FreeList == list_from(Store, free_startp, Len(Blocks) + 1)
FreeListSet == {FreeList[i] : i \in DOMAIN FreeList}

\* the heap walk and the free list after the step
BlocksNext == HeapWalk(StoreNext, heap_start')
FreeBlocksNext ==
    {BlocksNext[i] : i \in {j \in DOMAIN BlocksNext : GET_ALLOC(StoreNext, HDRP(BlocksNext[j])) = 0}}
FreeListNext == list_from(StoreNext, free_startp', Len(BlocksNext) + 1)

\* where the free block that holds block bp starts and ends once bp is
\* freed and merged with the neighbours that are free now
Index(bp) == CHOOSE i \in DOMAIN Blocks : Blocks[i] = bp
MergedStart(bp) ==
    IF Index(bp) > 1 /\ Blocks[Index(bp) - 1] \in FreeBlocks
    THEN Blocks[Index(bp) - 1]
    ELSE bp
MergedEnd(bp) ==
    IF Index(bp) < Len(Blocks) /\ Blocks[Index(bp) + 1] \in FreeBlocks
    THEN Blocks[Index(bp) + 1] + BlockSize(Store, Blocks[Index(bp) + 1])
    ELSE bp + BlockSize(Store, bp)

\* the step just taken is a call of mm_malloc, mm_free or mm_realloc
CallStep == calls' = calls + 1

----------------------------------------------------------------------------
(* C1: every non-null address returned by mm_malloc or mm_realloc is a     *)
(* multiple of 8 and lies strictly between the first and the last byte of  *)
(* the region.                                                              *)
AlignedInRegion ==
    (status = "ok" /\ last.op \in {"malloc", "realloc"} /\ last.ret # NULL)
        => /\ UMod(last.ret, 8) = 0
           /\ mem_start_brk < last.ret
           /\ last.ret < mem_brk - 1

\* mm_realloc has moved a block to a new address
C1_Witness ==
    /\ status = "ok"
    /\ last.op = "realloc"
    /\ last.ret # NULL
    /\ last.ret # last.ptr

(* C2: a non-null result of mm_malloc(n) or mm_realloc(p, n), n > 0, is a    *)
(* block of size at least the adjusted size of n with a payload of at      *)
(* least n bytes.                                                           *)
SizeHonored ==
    (status = "ok" /\ last.op \in {"malloc", "realloc"} /\ last.size # 0 /\ last.ret # NULL)
        => /\ ULE(AdjustSize(last.size), BlockSize(Store, last.ret))
           /\ ULE(last.size, Sub32(BlockSize(Store, last.ret), OVERHEAD))

(* C3: after q = mm_realloc(p, n), n > 0, returns non-null, every word that *)
(* holds one of the first min(old payload size, n) bytes at q is what it   *)
(* was at p before the call.                                               *)
PayloadPreserved ==
    [][(CallStep /\ last'.op = "realloc" /\ last'.size # 0 /\ last'.ret # NULL)
        => LET p == last'.ptr
               q == last'.ret
               old == Sub32(BlockSize(Store, p), OVERHEAD)
               n == IF ULT(last'.size, old) THEN last'.size ELSE old
           IN  \A o \in {x \in 0..(n - 1) : x % WSIZE = 0} :
                   Word(mem', Add32(q, o)) = Word(mem, Add32(p, o))]_vars

\* mm_realloc has moved a block the requester had stored to, and the words
\* are at the new address
C3_Witness ==
    /\ status = "ok"
    /\ last.op = "realloc"
    /\ last.ret # NULL
    /\ last.ret # last.ptr
    /\ Word(mem, last.ret) = <<Stamp(last.ptr)>>

(* C4: a call of mm_malloc, mm_free or mm_realloc leaves every payload the  *)
(* requester holds, other than the one the call is applied to, where it    *)
(* is, with the same header word and the same payload words.               *)
LiveUndisturbed ==
    [][CallStep
        => \A b \in live \ {last'.ptr} :
            /\ b \in live'
            /\ \A a \in {x \in (DOMAIN mem) \cup (DOMAIN mem') :
                            /\ x >= b - WSIZE
                            /\ x < b + BlockSize(Store, b) - OVERHEAD} :
                    Word(mem', a) = Word(mem, a)]_vars

\* a block was moved by mm_realloc while the requester held another payload
\* it had stored to
C4_Witness ==
    /\ status = "ok"
    /\ last.op = "realloc"
    /\ last.ret # NULL
    /\ last.ret # last.ptr
    /\ \E b \in live : b # last.ret /\ Word(mem, b) = <<Stamp(b)>>

(* C5: after every public call no two physically adjacent blocks are both  *)
(* free.                                                                    *)
NoAdjacentFree ==
    Returned =>
        \A i \in 1..(Len(Blocks) - 1) :
            ~ (Blocks[i] \in FreeBlocks /\ Blocks[i + 1] \in FreeBlocks)

(* C6: after every public call a block of the heap walk is reachable from   *)
(* free_startp via next links if and only if its allocated bit is 0.       *)
ListFlagAgreement ==
    Returned => FreeListSet = FreeBlocks

\* the free list has two members and the heap has an allocated block
C6_Witness ==
    /\ status = "ok"
    /\ Len(FreeList) >= 2
    /\ \E i \in 2..Len(Blocks) : Blocks[i] \notin FreeBlocks

(* C7: after every public call every block of the heap walk, the prologue   *)
(* included, has a footer word equal to its header word.                   *)
HeaderFooterAgree ==
    Returned =>
        \A i \in DOMAIN Blocks :
            LET bp == Blocks[i]
                ftr == bp + BlockSize(Store, bp) - OVERHEAD
            IN  /\ ftr \in DOMAIN mem
                /\ mem[ftr] = mem[HDRP(bp)]

\* mm_free has merged a block with a free neighbour
C7_Witness ==
    /\ status = "ok"
    /\ last.op = "free"
    /\ last.ptr # NULL
    /\ \E b \in FreeBlocks : BlockSize(Store, b) > CHUNKSIZE

(* C8: after every public call the traversal of the free list from         *)
(* free_startp ends at a null next link within as many steps as there are  *)
(* free blocks, visits no block twice, and the prev link of the head is    *)
(* null.                                                                    *)
ListWellFormed ==
    Returned =>
        /\ Len(FreeList) <= Cardinality(FreeBlocks)
        /\ Cardinality(FreeListSet) = Len(FreeList)
        /\ free_startp # NULL => Word(mem, PREV_PTR(free_startp)) = <<NULL>>
        /\ FreeList # <<>> => Word(mem, NEXT_PTR(FreeList[Len(FreeList)])) = <<NULL>>

\* the head of a list of two was removed from the list
C8_Witness ==
    /\ status = "ok"
    /\ calls = 3
    /\ Len(FreeList) = 1
    /\ Cardinality(live) = 2

(* C9: after every successful public call the prologue (size 8, allocated, *)
(* payload 8 bytes into the region) is intact and the heap walk from it    *)
(* ends at a zero-size allocated header in the last word of the region;    *)
(* that header moves only in a call that extends the region.               *)
Epilogue(s, hs) ==
    LET w == HeapWalk(s, hs)
    IN  HDRP(IF w = <<>> THEN hs ELSE NEXT_BLKP(s, w[Len(w)]))

Tiled(s, hs) ==
    /\ hs = mem_start_brk + REQSIZE
    /\ Word(s.mem, HDRP(hs)) = <<PACK(OVERHEAD, 1)>>
    /\ Word(s.mem, hs) = <<PACK(OVERHEAD, 1)>>
    /\ Epilogue(s, hs) = s.mem_brk - WSIZE
    /\ Word(s.mem, Epilogue(s, hs)) = <<PACK(0, 1)>>

SentinelsTiling ==
    [][status' = "ok"
        => /\ Tiled(StoreNext, heap_start')
           /\ (status = "ok" /\ Epilogue(StoreNext, heap_start') # Epilogue(Store, heap_start))
                => /\ last'.op \in {"malloc", "realloc"}
                   /\ mem_brk' > mem_brk]_vars

\* a call after mm_init has extended the region
C9_Witness ==
    /\ status = "ok"
    /\ mem_brk > mem_start_brk + 4 * WSIZE + CHUNKSIZE

(* C10: mm_free(NULL) returns and leaves the heap and the free list as     *)
(* they were.                                                               *)
FreeNullIsNoop ==
    [][(CallStep /\ last'.op = "free" /\ last'.ptr = NULL)
        => /\ status' = "ok"
           /\ mem' = mem
           /\ free_startp' = free_startp
           /\ mem_brk' = mem_brk]_vars

(* C11: mm_realloc(NULL, n) returns what mm_malloc(n) returns and leaves   *)
(* the heap and the free list as mm_malloc(n) leaves them.                 *)
ReallocNullIsMalloc ==
    [][(CallStep /\ last'.op = "realloc" /\ last'.ptr = NULL)
        => /\ status' = "ok"
           /\ last'.ret = mm_malloc(Store, last'.size).ret
           /\ StoreNext = mm_malloc(Store, last'.size).st]_vars

(* C12: when mm_realloc(p, n), n > 0, gets no block for a live payload p,    *)
(* it returns NULL to its caller, and p is still held with the header and  *)
(* the payload words it had.                                               *)
ReallocOomReturnsNull ==
    [][(CallStep /\ last'.op = "realloc" /\ last'.ptr \in live /\ last'.size # 0
            /\ last'.ret = NULL)
        => /\ status' = "ok"
           /\ last'.ptr \in live'
           /\ \A a \in {x \in (DOMAIN mem) \cup (DOMAIN mem') :
                           /\ x >= last'.ptr - WSIZE
                           /\ x < last'.ptr + BlockSize(Store, last'.ptr) - OVERHEAD} :
                   Word(mem', a) = Word(mem, a)]_vars

(* C13: when no free block is as large as the adjusted size of n > 0 and   *)
(* the provider refuses the extension, mm_malloc(n) returns NULL and the   *)
(* words of the heap, the free list and the bounds of the region are what  *)
(* they were.                                                              *)
MallocOomUnchanged ==
    [][(CallStep /\ last'.op = "malloc" /\ last'.size # 0
            /\ (\A b \in FreeBlocks : ULT(BlockSize(Store, b), AdjustSize(last'.size)))
            /\ mem_brk + MAX(AdjustSize(last'.size), CHUNKSIZE) > mem_max_addr)
        => /\ status' = "ok"
           /\ last'.ret = NULL
           /\ StoreNext = Store
           /\ live' = live]_vars

\* mm_malloc has failed on a heap with a free block and a held payload
C13_Witness ==
    /\ status = "ok"
    /\ last.op = "malloc"
    /\ last.size # 0
    /\ last.ret = NULL
    /\ FreeBlocks # {}
    /\ live # {}

(* C14: mm_init returns, with success exactly when the provider has room   *)
(* for the four words and for the CHUNKSIZE bytes after them, and it       *)
(* stores nothing when the provider refuses the four words.                *)
InitFailsCleanly ==
    [][(status = "start" /\ last'.op = "init")
        => /\ status' \in {"ok", "initfail"}
           /\ (status' = "ok") <=> (mem_brk + 4 * WSIZE + CHUNKSIZE <= mem_max_addr)
           /\ (mem_brk + 4 * WSIZE > mem_max_addr) => (mem' = mem)]_vars

(* C15: the first call after a successful mm_init, if it is                *)
(* mm_malloc(CHUNKSIZE), returns non-null if and only if the provider can  *)
(* grow the region by the adjusted size of CHUNKSIZE, CHUNKSIZE + 8 bytes. *)
ExtensionIffAdjustedRoom ==
    [][(status = "ok" /\ last.op = "init" /\ CallStep
            /\ last'.op = "malloc" /\ last'.size = CHUNKSIZE)
        => ((last'.ret # NULL) <=> (mem_brk + AdjustSize(CHUNKSIZE) <= mem_max_addr))]_vars

(* C15 as stated: ... if and only if the provider can grow the region by   *)
(* CHUNKSIZE bytes.                                                        *)
ExtensionIffChunkRoom ==
    [][(status = "ok" /\ last.op = "init" /\ CallStep
            /\ last'.op = "malloc" /\ last'.size = CHUNKSIZE)
        => ((last'.ret # NULL) <=> (mem_brk + CHUNKSIZE <= mem_max_addr))]_vars

\* mm_malloc(CHUNKSIZE), called first after mm_init, has extended the region
C15_Witness ==
    /\ status = "ok"
    /\ calls = 1
    /\ last.op = "malloc"
    /\ last.size = CHUNKSIZE
    /\ last.ret # NULL
    /\ mem_brk = mem_start_brk + 4 * WSIZE + CHUNKSIZE + AdjustSize(CHUNKSIZE)

ShrinkInPlace ==
    [][(CallStep /\ last'.op = "realloc" /\ last'.ptr \in live /\ last'.size # 0
            /\ ULE(AdjustSize(last'.size), BlockSize(Store, last'.ptr)))
        => /\ status' = "ok"
           /\ last'.ret = last'.ptr]_vars

(* C19: mm_realloc(bp, n) on a live payload bp whose next block is free,    *)
(* with the adjusted size of n larger than the size of bp's block and no   *)
(* larger than the two blocks together, returns bp, takes the next block   *)
(* off the free list and leaves the bounds of the region alone.            *)
GrowIntoRight ==
    [][(CallStep /\ last'.op = "realloc" /\ last'.ptr \in live
            /\ NEXT_BLKP(Store, last'.ptr) \in FreeBlocks
            /\ ULT(BlockSize(Store, last'.ptr), AdjustSize(last'.size))
            /\ ULE(AdjustSize(last'.size),
                   BlockSize(Store, last'.ptr) + BlockSize(Store, NEXT_BLKP(Store, last'.ptr))))
        => /\ status' = "ok"
           /\ last'.ret = last'.ptr
           /\ (\A i \in DOMAIN FreeListNext : FreeListNext[i] # NEXT_BLKP(Store, last'.ptr))
           /\ mem_brk' = mem_brk]_vars

(* C20: when mm_realloc(bp, n), n > 0, returns another address than bp, the *)
(* address is the one mm_malloc(n) returns, and the blocks of the heap,    *)
(* their header words and the head of the free list are the ones that     *)
(* mm_malloc(n) followed by mm_free(bp) leaves.                            *)
FallbackIsMallocCopyFree ==
    [][(CallStep /\ last'.op = "realloc" /\ last'.ptr \in live /\ last'.size # 0
            /\ status' = "ok" /\ last'.ret # NULL /\ last'.ret # last'.ptr)
        => /\ last'.ret = mm_malloc(Store, last'.size).ret
           /\ BlocksNext = HeapWalk(mm_free(mm_malloc(Store, last'.size).st, last'.ptr), heap_start)
           /\ \A i \in DOMAIN BlocksNext :
                GET(StoreNext, HDRP(BlocksNext[i]))
                    = GET(mm_free(mm_malloc(Store, last'.size).st, last'.ptr), HDRP(BlocksNext[i]))
           /\ free_startp' = mm_free(mm_malloc(Store, last'.size).st, last'.ptr).free_startp]_vars

SplitRule ==
    [][(CallStep /\ last'.op = "malloc" /\ last'.ret # NULL)
        => LET bp == last'.ret
               sz == AdjustSize(last'.size)
               bsz == IF mem_brk' = mem_brk
                      THEN BlockSize(Store, bp)
                      ELSE mem_brk' - bp
           IN  /\ mem_brk' = mem_brk => bp \in FreeListSet
               /\ \A i \in DOMAIN FreeListNext : FreeListNext[i] # bp
               /\ \E i \in DOMAIN BlocksNext : BlocksNext[i] = bp
               /\ GET_ALLOC(StoreNext, HDRP(bp)) = 1
               /\ IF bsz - sz >= REQSIZE + OVERHEAD
                  THEN /\ BlockSize(StoreNext, bp) = sz
                       /\ free_startp' = bp + sz
                       /\ bp + sz \in FreeBlocksNext
                       /\ BlockSize(StoreNext, bp + sz) = bsz - sz
                       /\ FreeBlocksNext \ {bp + sz} = FreeBlocks \ {bp}
                  ELSE /\ BlockSize(StoreNext, bp) = bsz
                       /\ FreeBlocksNext = FreeBlocks \ {bp}]_vars

\* mm_malloc has given out a whole block that is 8 bytes larger than asked
C22_Witness ==
    /\ status = "ok"
    /\ last.op = "malloc"
    /\ last.ret # NULL
    /\ BlockSize(Store, last.ret) = AdjustSize(last.size) + REQSIZE
    /\ FreeList = << >>

BlockSizes ==
    Returned =>
        \A i \in 2..Len(Blocks) :
            /\ BlockSize(Store, Blocks[i]) % REQSIZE = 0
            /\ BlockSize(Store, Blocks[i]) >= REQSIZE + OVERHEAD

\* the heap holds a free block and an allocated block of the least size
C24_Witness ==
    /\ status = "ok"
    /\ \E i \in 2..Len(Blocks) :
            /\ Blocks[i] \in FreeBlocks
            /\ BlockSize(Store, Blocks[i]) = REQSIZE + OVERHEAD
    /\ \E p \in live : BlockSize(Store, p) = REQSIZE + OVERHEAD

(* C25: the block of a non-null address that mm_malloc(n) returned has the *)
(* adjusted size of n or that size plus 8.                                 *)
BoundedSlack ==
    (status = "ok" /\ last.op = "malloc" /\ last.ret # NULL)
        => BlockSize(Store, last.ret)
             \in {AdjustSize(last.size), AdjustSize(last.size) + REQSIZE}

\* mm_malloc has returned a block of the extended region that is 8 bytes
\* larger than the adjusted size
C25_Witness ==
    /\ status = "ok"
    /\ last.op = "malloc"
    /\ last.ret # NULL
    /\ mem_brk > mem_start_brk + 4 * WSIZE + CHUNKSIZE
    /\ last.ret >= mem_start_brk + 4 * WSIZE + CHUNKSIZE
    /\ BlockSize(Store, last.ret) = AdjustSize(last.size) + REQSIZE

====
